---------------------------- MODULE Spec2Model ----------------------------
(***************************************************************************)
(* Model of read_ppm (src/main.py): the decoder of PPM files, ASCII (P3)   *)
(* and binary (P6).  A file is a sequence of bytes (0..255); a decoded     *)
(* line or token is the sequence of its code points, which for the ascii   *)
(* and latin1 codecs are the byte values themselves.                       *)
(***************************************************************************)
EXTENDS Integers, Sequences, FiniteSets, TLC

(***************************************************************************)
(* Python's str and bytes primitives used by the decoder.                  *)
(***************************************************************************)

\* str.isspace() on the code points below 256: what str.split() and
\* str.strip() treat as whitespace.
IsSpace(b) == b \in {9, 10, 11, 12, 13, 28, 29, 30, 31, 32, 133, 160}

\* The line boundaries of str.splitlines() among the ASCII code points.
IsLineBreak(b) == b \in {10, 11, 12, 13, 28, 29, 30}

MinOf(S) == CHOOSE x \in S : \A y \in S : x <= y

MaxOf(S) == CHOOSE x \in S : \A y \in S : x >= y

\* f.readline() of a binary stream at position p (p bytes consumed): the
\* position after the line, which ends with its first b'\n' or at the end
\* of the stream.
ReadLineEnd(f, p) ==
    LET nl == {i \in (p + 1)..Len(f) : f[i] = 10}
    IN  IF nl = {} THEN Len(f) ELSE MinOf(nl)

\* if '#' in s: s = s.split('#', 1)[0]
StripComment(s) ==
    LET hashes == {i \in 1..Len(s) : s[i] = 35}
    IN  IF hashes = {} THEN s ELSE SubSeq(s, 1, MinOf(hashes) - 1)

\* The pieces of s between the elements that satisfy Sep (IsSpace or
\* IsLineBreak), in order; the empty pieces are dropped.
Pieces(s, Sep(_)) ==
    LET starts == {i \in 1..Len(s) : ~Sep(s[i]) /\ (i = 1 \/ Sep(s[i - 1]))}
        ends   == {i \in 1..Len(s) : ~Sep(s[i]) /\ (i = Len(s) \/ Sep(s[i + 1]))}
        Nth(S, k) == CHOOSE x \in S : Cardinality({y \in S : y < x}) = k - 1
    IN  [k \in 1..Cardinality(starts) |-> SubSeq(s, Nth(starts, k), Nth(ends, k))]

\* s.split(): the maximal runs of non-whitespace, in order.
Split(s) == Pieces(s, IsSpace)

\* s.strip()
Strip(s) ==
    LET ns == {i \in 1..Len(s) : ~IsSpace(s[i])}
    IN  IF ns = {} THEN <<>> ELSE SubSeq(s, MinOf(ns), MaxOf(ns))

\* content.splitlines(), without the empty lines (which the decoder drops).
SplitLines(s) == Pieces(s, IsLineBreak)

\* bytes.decode('ascii', errors='ignore'): the bytes above 127 are dropped.
DecodeAsciiIgnore(s) == SelectSeq(s, LAMBDA b : b < 128)

\* The concatenation of a sequence of sequences.
RECURSIVE Flatten(_)
Flatten(ss) == IF ss = <<>> THEN <<>> ELSE Head(ss) \o Flatten(Tail(ss))

IsDigit(b) == b \in 48..57

RECURSIVE DigitsValue(_, _)
DigitsValue(s, acc) ==
    IF s = <<>> THEN acc
    ELSE DigitsValue(Tail(s), IF Head(s) = 95 THEN acc ELSE 10 * acc + (Head(s) - 48))

\* int(tok) of a token without whitespace: an optional sign, then decimal
\* digits, single underscores allowed between digits.  ok = FALSE is
\* Python's ValueError.
ParseInt(tok) ==
    LET signed == tok # <<>> /\ Head(tok) \in {43, 45}
        body   == IF signed THEN Tail(tok) ELSE tok
        n      == Len(body)
        wellFormed ==
            /\ n > 0
            /\ \A i \in 1..n : IsDigit(body[i]) \/ body[i] = 95
            /\ body[1] # 95 /\ body[n] # 95
            /\ \A i \in 1..(n - 1) : ~(body[i] = 95 /\ body[i + 1] = 95)
    IN  IF ~wellFormed THEN [ok |-> FALSE, val |-> 0]
        ELSE [ok |-> TRUE,
              val |-> IF signed /\ Head(tok) = 45
                      THEN 0 - DigitsValue(body, 0) ELSE DigitsValue(body, 0)]

(***************************************************************************)
(* Python float arithmetic (IEEE 754 binary64, round to nearest, ties to   *)
(* even) on the non-negative values the rescaling computes.  A value is    *)
(* [ip, fr]: its integer part and its fraction bits, most significant      *)
(* first.                                                                  *)
(***************************************************************************)

\* The number of bits of n, 0 <= n < 2^30.
BitLen(n) == IF n = 0 THEN 0 ELSE CHOOSE k \in 1..30 : 2^(k - 1) <= n /\ (k = 30 \/ n < 2^k)

Bit(fr, i) == IF i >= 1 /\ i <= Len(fr) THEN fr[i] ELSE 0

\* The exact value ip + 0.fr (and, if sticky, a non-zero remainder below the
\* last bit) rounded to the 53 significant bits of a double.
RoundSig(ip, fr, sticky) ==
    LET ones  == {i \in 1..Len(fr) : fr[i] = 1}
        keep  == IF ip > 0 THEN 53 - BitLen(ip)
                 ELSE IF ones = {} THEN Len(fr)
                 ELSE 53 + MinOf(ones) - 1
        kept  == [i \in 1..keep |-> Bit(fr, i)]
        guard == Bit(fr, keep + 1)
        rest  == sticky \/ \E i \in (keep + 2)..Len(fr) : fr[i] = 1
        lsb   == IF keep = 0 THEN ip % 2 ELSE kept[keep]
        zeros == {i \in 1..keep : kept[i] = 0}
    IN  IF ~(guard = 1 /\ (rest \/ lsb = 1)) THEN [ip |-> ip, fr |-> kept]
        ELSE IF zeros = {} THEN [ip |-> ip + 1, fr |-> [i \in 1..keep |-> 0]]
        ELSE [ip |-> ip,
              fr |-> [i \in 1..keep |->
                        IF i < MaxOf(zeros) THEN kept[i]
                        ELSE IF i = MaxOf(zeros) THEN 1 ELSE 0]]

\* Fraction bits, 8 to a base-256 digit, and back.
BitsOf(digits) ==
    [i \in 1..(8 * Len(digits)) |->
        (digits[((i - 1) \div 8) + 1] \div 2^(7 - ((i - 1) % 8))) % 2]

DigitsOf(bits) ==
    [j \in 1..((Len(bits) + 7) \div 8) |->
        128 * Bit(bits, 8 * j - 7) + 64 * Bit(bits, 8 * j - 6)
        + 32 * Bit(bits, 8 * j - 5) + 16 * Bit(bits, 8 * j - 4)
        + 8 * Bit(bits, 8 * j - 3) + 4 * Bit(bits, 8 * j - 2)
        + 2 * Bit(bits, 8 * j - 1) + Bit(bits, 8 * j)]

\* Long division: the next k base-256 fraction digits of r/m (r < m < 2^23),
\* and the remainder.
RECURSIVE DivDigits(_, _, _, _)
DivDigits(r, m, k, acc) ==
    IF k = 0 THEN [digits |-> acc, rem |-> r]
    ELSE DivDigits((r * 256) % m, m, k - 1, Append(acc, (r * 256) \div m))

\* float(n) / float(m) for integers n >= 0, m > 0 (both exact as doubles):
\* 88 fraction bits of the quotient and a sticky remainder, rounded.
TrueDiv(n, m) ==
    LET d == DivDigits(n % m, m, 11, <<>>)
    IN  RoundSig(n \div m, BitsOf(d.digits), d.rem # 0)

\* The digits of v * 0.digits, from the least significant digit up.
RECURSIVE MulDigits(_, _, _, _, _)
MulDigits(v, digits, j, carry, acc) ==
    IF j = 0 THEN [carry |-> carry, digits |-> acc]
    ELSE MulDigits(v, digits, j - 1, (v * digits[j] + carry) \div 256,
                   <<(v * digits[j] + carry) % 256>> \o acc)

\* float(v) * x for an integer v, 0 <= v < 2^23, and a double x.
FloatMulInt(v, x) ==
    LET d == DigitsOf(x.fr)
        p == MulDigits(v, d, Len(d), 0, <<>>)
    IN  RoundSig(v * x.ip + p.carry, BitsOf(p.digits), FALSE)

\* round(x) of a float x >= 0: the nearest integer, a tie to the even one.
PyRound(x) ==
    LET half == Bit(x.fr, 1)
        rest == \E i \in 2..Len(x.fr) : x.fr[i] = 1
    IN  IF half = 0 THEN x.ip
        ELSE IF rest THEN x.ip + 1
        ELSE x.ip + (x.ip % 2)

Abs(n) == IF n < 0 THEN 0 - n ELSE n

\* int(round(v * 255.0 / maxval)), maxval # 0: the P3 rescale.
RescaleP3(v, maxval) ==
    LET mag == PyRound(TrueDiv(Abs(v) * 255, Abs(maxval)))
    IN  IF (v < 0) # (maxval < 0) THEN 0 - mag ELSE mag

\* scale = 255.0 / maxval
Scale(maxval) == TrueDiv(255, maxval)

\* int(round(b * scale)): the P6 rescale.
RescaleP6(b, scale) == PyRound(FloatMulInt(b, scale))

(***************************************************************************)
(* The outcomes of read_ppm: the image returned, or the exception raised,  *)
(* tagged with the place that raised it.                                   *)
(***************************************************************************)

NoResult ==
    [kind |-> "none", err |-> "", info |-> <<>>, width |-> 0, height |-> 0, data |-> <<>>]

\* An exception of class kind, raised at the place err, whose message
\* reports info.
Raise(kind, err, info) ==
    [kind |-> kind, err |-> err, info |-> info, width |-> 0, height |-> 0, data |-> <<>>]

\* return img
Returned(w, h, data) ==
    [kind |-> "image", err |-> "", info |-> <<>>, width |-> w, height |-> h, data |-> data]

\* Image.frombytes('RGB', (width, height), data), called with
\* Len(data) = width * height * 3.  Pillow rejects a negative size; what it
\* does with an empty image depends on its version.
FromBytes(w, h, data) ==
    IF w < 0 \/ h < 0 THEN {Raise("ValueError", "frombytes", <<>>)}
    ELSE IF w = 0 \/ h = 0 THEN {Returned(w, h, data), Raise("ValueError", "frombytes", <<>>)}
    ELSE {Returned(w, h, data)}

\* bytes(samples): every element must be in range(0, 256).
BytesOk(samples) == \A i \in 1..Len(samples) : samples[i] \in 0..255

MagicP3 == <<80, 51>>

MagicP6 == <<80, 54>>

(***************************************************************************)
(* The P3 (ASCII) branch.                                                  *)
(***************************************************************************)

\* The tokens of the text after the magic line: comments stripped line by
\* line, the lines joined by ' ' and split on whitespace.
P3Tokens(content) ==
    LET lines == SplitLines(content)
    IN  Flatten([k \in 1..Len(lines) |-> Split(StripComment(lines[k]))])

\* width = int(tokens[0]); height = int(tokens[1]); maxval = int(tokens[2])
P3ParseHeader(tokens) ==
    LET w == ParseInt(tokens[1])
        h == ParseInt(tokens[2])
        m == ParseInt(tokens[3])
    IN  [ok |-> w.ok /\ h.ok /\ m.ok, width |-> w.val, height |-> h.val, maxval |-> m.val]

\* samples = list(map(int, data_tokens))
P3Samples(data_tokens) == [i \in 1..Len(data_tokens) |-> ParseInt(data_tokens[i])]

\* The conversion, the rescaling and the construction of the image.
P3ConvertOutcomes(w, h, maxval, data_tokens) ==
    LET parsed == P3Samples(data_tokens)
        vals   == [i \in 1..Len(parsed) |-> parsed[i].val]
        scaled == [i \in 1..Len(vals) |-> RescaleP3(vals[i], maxval)]
    IN  IF \E i \in 1..Len(parsed) : ~parsed[i].ok THEN {Raise("ValueError", "int", <<>>)}
        ELSE IF maxval = 255
             THEN (IF BytesOk(vals) THEN FromBytes(w, h, vals)
                   ELSE {Raise("ValueError", "bytes", <<>>)})
        ELSE IF maxval = 0 THEN {Raise("ZeroDivisionError", "scale", <<>>)}
        ELSE IF BytesOk(scaled) THEN FromBytes(w, h, scaled)
        ELSE {Raise("ValueError", "bytes", <<>>)}

\* The whole branch, from the tokens on.
P3Outcomes(tokens) ==
    IF Len(tokens) < 3 THEN {Raise("PPMFormatError", "HeaderIncomplete", <<>>)}
    ELSE LET hd == P3ParseHeader(tokens)
             data_tokens == SubSeq(tokens, 4, Len(tokens))
         IN  IF ~hd.ok THEN {Raise("ValueError", "int", <<>>)}
             ELSE IF Len(data_tokens) # hd.width * hd.height * 3
                  THEN {Raise("PPMFormatError", "SampleCountMismatch",
                              <<Len(data_tokens), hd.width * hd.height * 3>>)}
             ELSE P3ConvertOutcomes(hd.width, hd.height, hd.maxval, data_tokens)

(***************************************************************************)
(* The P6 (binary) branch.                                                 *)
(***************************************************************************)

\* The header loop, from position p with the tokens toks: lines are read
\* until 4 tokens are collected or the stream ends.
RECURSIVE P6HeaderLoop(_, _, _)
P6HeaderLoop(f, p, toks) ==
    IF Len(toks) >= 4 \/ ReadLineEnd(f, p) = p THEN [tokens |-> toks, pos |-> p]
    ELSE P6HeaderLoop(f, ReadLineEnd(f, p),
                      toks \o Split(StripComment(SubSeq(f, p + 1, ReadLineEnd(f, p)))))

\* A header loop that reads one line more than the line of the 4th token.
P6DataStartNextLine(f) == ReadLineEnd(f, P6HeaderLoop(f, 0, <<>>).pos)

\* The stream position at which the pixel bytes are read: where the header
\* loop, started at f.seek(0), leaves it.
P6DataStart(f) == P6HeaderLoop(f, 0, <<>>).pos

\* The validation of the header: the exception raised, or NoResult.
P6HeaderError(tokens) ==
    LET w == ParseInt(tokens[2])
        h == ParseInt(tokens[3])
        m == ParseInt(tokens[4])
    IN  IF Len(tokens) < 4 THEN Raise("PPMFormatError", "HeaderIncomplete", <<>>)
        ELSE IF ~(w.ok /\ h.ok /\ m.ok) THEN Raise("PPMFormatError", "NumericParse", <<>>)
        ELSE IF w.val <= 0 \/ h.val <= 0 THEN Raise("PPMFormatError", "InvalidDimensions", <<>>)
        ELSE IF ~(1 <= m.val /\ m.val <= 65535) THEN Raise("PPMFormatError", "MaxvalOutOfRange", <<>>)
        ELSE NoResult

\* A depth switch placed one maxval too high.
BytesPerSampleOffByOne(maxval) == IF maxval <= 256 THEN 1 ELSE 2

\* bps = 1 if maxval < 256 else 2
BytesPerSample(maxval) == IF maxval < 256 THEN 1 ELSE 2

block_size == 65536

\* val = (hi << 8) | lo, for each pair of bytes of buf.
BigEndianSamples(buf) ==
    [i \in 1..(Len(buf) \div 2) |-> 256 * buf[2 * i - 1] + buf[2 * i]]

\* if val < 0: val = 0   elif val > maxval: val = maxval
Clamp(val, maxval) == IF val < 0 THEN 0 ELSE IF val > maxval THEN maxval ELSE val

\* The raw samples of the pixel bytes.
P6Samples(buf, bps) == IF bps = 1 THEN buf ELSE BigEndianSamples(buf)

\* The length check, the rescaling and the construction of the image.
P6ConvertOutcomes(w, h, maxval, buf) ==
    LET bps    == BytesPerSample(maxval)
        scale  == Scale(maxval)
        raw    == P6Samples(buf, bps)
        data1  == [i \in 1..Len(raw) |-> RescaleP6(raw[i], scale)]
        data2  == [i \in 1..Len(raw) |-> RescaleP6(Clamp(raw[i], maxval), scale)]
    IN  IF Len(buf) # w * h * 3 * bps
        THEN {Raise("PPMFormatError", "SampleCountMismatch",
                    <<Len(buf), w * h * 3 * bps>>)}
        ELSE IF bps = 1
             THEN (IF maxval = 255 THEN FromBytes(w, h, buf)
                   ELSE IF BytesOk(data1) THEN FromBytes(w, h, data1)
                   ELSE {Raise("ValueError", "bytes", <<>>)})
        ELSE FromBytes(w, h, data2)

(***************************************************************************)
(* read_ppm and _read_header_tokens as functions of the file's bytes.      *)
(***************************************************************************)

\* read_ppm(path) for a stream whose reads are never short: the outcomes.
read_ppm(f) ==
    LET first == SubSeq(f, 1, ReadLineEnd(f, 0))
        hd    == P6HeaderLoop(f, 0, <<>>)
        w     == ParseInt(hd.tokens[2]).val
        h     == ParseInt(hd.tokens[3]).val
        m     == ParseInt(hd.tokens[4]).val
        total == w * h * 3 * BytesPerSample(m)
        start == P6DataStart(f)
        end   == IF start + total < Len(f) THEN start + total ELSE Len(f)
    IN  IF first = <<>> THEN {Raise("PPMFormatError", "EmptyInput", <<>>)}
        ELSE IF Strip(first) \notin {MagicP3, MagicP6}
             THEN {Raise("PPMFormatError", "InvalidMagic", Strip(first))}
        ELSE IF Strip(first) = MagicP3
             THEN P3Outcomes(P3Tokens(DecodeAsciiIgnore(SubSeq(f, Len(first) + 1, Len(f)))))
        ELSE IF P6HeaderError(hd.tokens) # NoResult THEN {P6HeaderError(hd.tokens)}
        ELSE P6ConvertOutcomes(w, h, m, SubSeq(f, start + 1, end))

\* The loop of _read_header_tokens: lines are read, their comments removed
\* and their tokens added, until 4 tokens are collected or the stream ends.
RECURSIVE HeaderTokensLoop(_, _, _)
HeaderTokensLoop(f, p, toks) ==
    IF Len(toks) >= 4 \/ ReadLineEnd(f, p) = p THEN toks
    ELSE HeaderTokensLoop(f, ReadLineEnd(f, p),
                          toks \o Split(StripComment(SubSeq(f, p + 1, ReadLineEnd(f, p)))))

\* _read_header_tokens(f): tokens[:4], or ok = FALSE for its PPMFormatError.
read_header_tokens(f) ==
    LET toks == HeaderTokensLoop(f, 0, <<>>)
    IN  IF Len(toks) < 4 THEN [ok |-> FALSE, tokens |-> <<>>]
        ELSE [ok |-> TRUE, tokens |-> SubSeq(toks, 1, 4)]

(***************************************************************************)
(* The input files of the model: byte sequences built from header and data *)
(* layouts, within the bounds below.                                       *)
(***************************************************************************)

\* The largest width of the small images.
MaxWidth == 2

\* How many samples (P3) or bytes (P6) a file may miss or have in excess.
MaxExtra == 1

\* The side of the one large P6 image, whose pixel block exceeds block_size.
BigSide == 148

\* A read of at most this many bytes may return any smaller positive count.
SmallRead == 4

SP == <<32>>

NL == <<10>>

DecNat(n) ==
    LET nd == CHOOSE k \in 1..9 : n < 10^k /\ (k = 1 \/ n >= 10^(k - 1))
    IN  [i \in 1..nd |-> 48 + ((n \div 10^(nd - i)) % 10)]

\* The decimal text of an integer.
Dec(n) == IF n < 0 THEN <<45>> \o DecNat(0 - n) ELSE DecNat(n)

Range(q) == {q[i] : i \in 1..Len(q)}

\* Sequences of n values: vals repeated from each offset, and the constant ones.
Patterns(vals, n) ==
    {[i \in 1..n |-> vals[((i + t) % Len(vals)) + 1]] : t \in 0..(Len(vals) - 1)}
    \cup {[i \in 1..n |-> v] : v \in Range(vals)}

\* The header after the magic line, in each layout.
HeaderText(layout, wt, ht, mt) ==
    CASE layout = 1 -> wt \o SP \o ht \o SP \o mt \o NL
      [] layout = 2 -> wt \o NL \o ht \o NL \o mt \o NL
      [] layout = 3 -> <<35, 99>> \o NL \o wt \o SP \o ht \o <<35, 55>> \o NL
                       \o mt \o SP \o <<35, 57, 32, 57>> \o NL
      [] layout = 4 -> wt \o SP \o ht \o SP \o mt \o SP
      [] layout = 5 -> wt \o <<9>> \o ht \o SP \o mt \o SP \o <<55>> \o NL

Layouts == 1..5

\* The ASCII samples, in each data layout.
SampleText(layout, toks) ==
    CASE layout = 1 -> Flatten([i \in 1..Len(toks) |-> toks[i] \o SP]) \o NL
      [] layout = 2 -> Flatten([i \in 1..Len(toks) |-> toks[i] \o NL])
      [] layout = 3 -> Flatten([i \in 1..Len(toks) |->
                          toks[i] \o (IF i = 1 THEN <<35, 56, 32, 56>> \o NL ELSE SP)])

DataLayouts == 1..3

Dims == {<<w, 1>> : w \in 1..MaxWidth} \cup {<<1, 2>>}

Counts(n) == {k \in (n - MaxExtra)..(n + MaxExtra) : k >= 0}

\* Sample values for a maxval: in range, and one above it.
SampleSeqs(m, n) == Patterns(<<0, m \div 2, m>>, n) \cup Patterns(<<m + 1, 0>>, n)

DecAll(q) == [i \in 1..Len(q) |-> Dec(q[i])]

P3Maxvals == {1, 100, 255, 256, 65535}

\* P3 files with a well-formed header, in every header and data layout.
P3LayoutFiles ==
    {MagicP3 \o NL \o HeaderText(t[1], Dec(1), Dec(1), Dec(255)) \o SampleText(t[2], DecAll(t[3])) :
        t \in Layouts \X DataLayouts \X UNION {SampleSeqs(255, n) : n \in Counts(3)}}

\* P3 files of every size and maxval.
P3SizeFiles ==
    UNION {{MagicP3 \o NL \o HeaderText(1, Dec(t[1][1]), Dec(t[1][2]), Dec(t[2]))
              \o SampleText(1, DecAll(q)) :
                q \in UNION {SampleSeqs(t[2], n) : n \in Counts(t[1][1] * t[1][2] * 3)}} :
           t \in Dims \X P3Maxvals}

\* Header tokens that are not positive integers, or not integers at all.
OddDims == {Dec(1), Dec(0), Dec(0 - 1), <<120>>}

OddMaxvals == {Dec(255), Dec(0), Dec(0 - 5), Dec(65536), Dec(70000), <<120>>}

ZeroSamples(wt, ht) ==
    LET w == ParseInt(wt)
        h == ParseInt(ht)
        n == IF w.ok /\ h.ok /\ w.val * h.val > 0 THEN w.val * h.val * 3 ELSE 0
    IN  [i \in 1..n |-> 0]

P3OddFiles ==
    {MagicP3 \o NL \o HeaderText(1, t[1], t[2], t[3]) \o SampleText(1, DecAll(ZeroSamples(t[1], t[2]))) :
        t \in OddDims \X OddDims \X OddMaxvals}
    \cup {MagicP3 \o NL \o HeaderText(1, Dec(1), Dec(1), Dec(255))
            \o SampleText(1, <<Dec(0), <<120>>, Dec(0)>>),
          MagicP3 \o NL \o HeaderText(1, Dec(1), Dec(1), Dec(255))
            \o SampleText(1, <<Dec(0), Dec(0 - 1), Dec(0)>>)}

\* The bytes of samples, 1 or 2 (big-endian) to a sample.
Encode(q, bps) ==
    IF bps = 1 THEN q
    ELSE [i \in 1..(2 * Len(q)) |->
            IF i % 2 = 1 THEN q[(i + 1) \div 2] \div 256 ELSE q[i \div 2] % 256]

\* A P6 pixel block of n samples, cut or extended by d bytes.
Blocks(m, n, d) ==
    LET bps == IF m < 256 THEN 1 ELSE 2
        top == IF bps = 1 THEN 255 ELSE 65535
        seqs == Patterns(<<0, m \div 2, m>>, n) \cup Patterns(<<top, m, 0>>, n)
    IN  {IF d <= 0 THEN SubSeq(Encode(q, bps), 1, n * bps + d)
         ELSE Encode(q, bps) \o [i \in 1..d |-> 10] : q \in seqs}

P6Maxvals == {1, 100, 254, 255, 256, 1000, 65535}

\* P6 files with a well-formed header, in every header layout.
P6LayoutFiles ==
    {MagicP6 \o NL \o HeaderText(t[1], Dec(1), Dec(1), Dec(255)) \o t[2] :
        t \in Layouts \X
            (UNION {Blocks(255, 3, d) : d \in (0 - MaxExtra)..MaxExtra}
             \cup {<<10, 0, 0, 0>>, <<35, 10, 1, 2, 3>>, <<0, 0, 10, 0, 0>>})}

\* P6 files of every size and maxval; those of 2 bytes to a sample also with
\* a pixel block of only 1 byte to a sample.
P6SizeFiles ==
    UNION {{MagicP6 \o NL \o HeaderText(1, Dec(t[1][1]), Dec(t[1][2]), Dec(t[2])) \o b :
                b \in UNION {Blocks(t[2], t[1][1] * t[1][2] * 3, d) :
                               d \in ((0 - MaxExtra)..MaxExtra)
                                     \cup (IF t[2] >= 256 THEN {0 - t[1][1] * t[1][2] * 3} ELSE {})}} :
           t \in Dims \X P6Maxvals}

P6OddFiles ==
    {MagicP6 \o NL \o HeaderText(1, t[1], t[2], t[3]) \o <<0, 0, 0>> :
        t \in OddDims \X OddDims \X OddMaxvals}

\* Files whose first line is not the bare magic: empty, another magic, the
\* other header tokens or a comment on the magic line, a short header.
MagicLineFiles ==
    LET rest3 == HeaderText(1, Dec(1), Dec(1), Dec(255)) \o SampleText(1, DecAll(<<0, 128, 255>>))
        rest6 == HeaderText(1, Dec(1), Dec(1), Dec(255)) \o <<0, 128, 255>>
    IN  {<<>>, <<10>>, MagicP3, MagicP6, MagicP3 \o NL, MagicP6 \o NL,
         <<80, 50>> \o NL \o rest3, <<112, 51>> \o NL \o rest3,
         MagicP3 \o SP \o rest3, MagicP6 \o SP \o rest6,
         MagicP3 \o <<32, 35, 99>> \o NL \o rest3, MagicP6 \o <<35, 99>> \o NL \o rest6,
         MagicP3 \o <<13>> \o NL \o rest3, SP \o MagicP6 \o <<160>> \o NL \o rest6,
         <<35, 99>> \o NL \o MagicP3 \o NL \o rest3,
         MagicP3 \o NL \o Dec(1) \o SP \o Dec(1) \o NL,
         MagicP6 \o NL \o Dec(1) \o SP \o Dec(1) \o NL,
         MagicP6 \o NL \o Dec(1) \o SP \o <<35>> \o Dec(1) \o SP \o Dec(255) \o NL}

\* The large P6 image, complete and one byte short.
BigFiles ==
    {MagicP6 \o NL \o HeaderText(1, Dec(BigSide), Dec(BigSide), Dec(255))
       \o [i \in 1..(BigSide * BigSide * 3 - d) |-> i % 251] : d \in {0, 1}}

Files ==
    P3LayoutFiles \cup P3SizeFiles \cup P3OddFiles
    \cup P6LayoutFiles \cup P6SizeFiles \cup P6OddFiles
    \cup MagicLineFiles \cup BigFiles

(***************************************************************************)
(* read_ppm as a state machine: one action per step of the function.       *)
(***************************************************************************)

VARIABLES
    file,         \* the bytes of the file at path
    handle,       \* the stream f: "unopened", "open" or "closed"
    pos,          \* the stream position: the number of bytes consumed
    pc,           \* the position in read_ppm
    magic,        \* first.decode(...).strip()
    tokens,       \* the tokens collected (P3: all of them; P6: the header's)
    width, height, maxval,
    bps, total_bytes, remaining, to_read, buf,   \* the P6 block read
    samples,      \* the samples before rescaling
    result        \* the image returned or the exception raised

vars == <<file, handle, pos, pc, magic, tokens, width, height, maxval,
          bps, total_bytes, remaining, to_read, buf, samples, result>>

Init ==
    /\ file \in Files
    /\ handle = "unopened"
    /\ pos = 0
    /\ pc = "open"
    /\ magic = <<>>
    /\ tokens = <<>>
    /\ width = 0 /\ height = 0 /\ maxval = 0
    /\ bps = 0 /\ total_bytes = 0 /\ remaining = 0 /\ to_read = 0
    /\ buf = <<>>
    /\ samples = <<>>
    /\ result = NoResult

\* A block exit that leaves the stream as it is.
WithExitLeak(h) == h

\* The with block's exit: the stream is closed however the block is left.
WithExit(h) == "closed"

\* Leaving read_ppm, by return or by an exception.
Exit(r) ==
    /\ result' = r
    /\ handle' = WithExit(handle)
    /\ pc' = "done"

\* f.read(n) with avail bytes left in the stream: the numbers of bytes it may
\* return.  0 only at the end of the stream; otherwise all that is asked for
\* (or left), or fewer.
ReadCounts(n, avail) ==
    LET m == IF n < avail THEN n ELSE avail
    IN  IF m <= 0 THEN {0}
        ELSE {m, (m + 1) \div 2} \cup (IF m <= SmallRead THEN 1..m ELSE {})

\* with open(path, 'rb') as f:
Open ==
    /\ pc = "open"
    /\ handle' = "open"
    /\ pc' = "magic"
    /\ UNCHANGED <<file, pos, magic, tokens, width, height, maxval, bps,
                   total_bytes, remaining, to_read, buf, samples, result>>

\* The first line and the check of the magic.
ReadMagic ==
    /\ pc = "magic"
    /\ LET first == SubSeq(file, 1, ReadLineEnd(file, 0))
       IN  /\ pos' = Len(first)
           /\ IF first = <<>>
              THEN /\ Exit(Raise("PPMFormatError", "EmptyInput", <<>>))
                   /\ UNCHANGED magic
              ELSE /\ magic' = Strip(first)
                   /\ IF magic' \notin {MagicP3, MagicP6}
                      THEN Exit(Raise("PPMFormatError", "InvalidMagic", magic'))
                      ELSE /\ pc' = IF magic' = MagicP3 THEN "p3read" ELSE "p6header"
                           /\ UNCHANGED <<handle, result>>
    /\ UNCHANGED <<file, tokens, width, height, maxval, bps, total_bytes,
                   remaining, to_read, buf, samples>>

\* P3: the rest of the file is read and split into tokens.
P3Read ==
    /\ pc = "p3read"
    /\ pos' = Len(file)
    /\ tokens' = P3Tokens(DecodeAsciiIgnore(SubSeq(file, pos + 1, Len(file))))
    /\ IF Len(tokens') < 3
       THEN Exit(Raise("PPMFormatError", "HeaderIncomplete", <<>>))
       ELSE pc' = "p3header" /\ UNCHANGED <<handle, result>>
    /\ UNCHANGED <<file, magic, width, height, maxval, bps, total_bytes,
                   remaining, to_read, buf, samples>>

\* P3: width, height and maxval, and the check of the number of samples.
P3Header ==
    /\ pc = "p3header"
    /\ LET hd == P3ParseHeader(tokens)
       IN  IF ~hd.ok
           THEN /\ Exit(Raise("ValueError", "int", <<>>))
                /\ UNCHANGED <<width, height, maxval>>
           ELSE /\ width' = hd.width /\ height' = hd.height /\ maxval' = hd.maxval
                /\ IF Len(tokens) - 3 # hd.width * hd.height * 3
                   THEN Exit(Raise("PPMFormatError", "SampleCountMismatch",
                                   <<Len(tokens) - 3, hd.width * hd.height * 3>>))
                   ELSE pc' = "p3convert" /\ UNCHANGED <<handle, result>>
    /\ UNCHANGED <<file, pos, magic, tokens, bps, total_bytes, remaining,
                   to_read, buf, samples>>

\* P3: the conversion of the samples and the image.
P3Convert ==
    /\ pc = "p3convert"
    /\ LET data_tokens == SubSeq(tokens, 4, Len(tokens))
           parsed == P3Samples(data_tokens)
       IN  /\ samples' = IF \A i \in 1..Len(parsed) : parsed[i].ok
                         THEN [i \in 1..Len(parsed) |-> parsed[i].val]
                         ELSE samples
           /\ \E r \in P3ConvertOutcomes(width, height, maxval, data_tokens) : Exit(r)
    /\ UNCHANGED <<file, pos, magic, tokens, width, height, maxval, bps,
                   total_bytes, remaining, to_read, buf>>

\* P6: f.seek(0), the header loop, the validation, and the set-up of the
\* block read.
P6Header ==
    /\ pc = "p6header"
    /\ LET hd == P6HeaderLoop(file, 0, <<>>)
           err == P6HeaderError(hd.tokens)
       IN  /\ pos' = P6DataStart(file)
           /\ tokens' = hd.tokens
           /\ IF err # NoResult
              THEN /\ Exit(err)
                   /\ UNCHANGED <<width, height, maxval, bps, total_bytes, remaining, buf>>
              ELSE /\ width' = ParseInt(hd.tokens[2]).val
                   /\ height' = ParseInt(hd.tokens[3]).val
                   /\ maxval' = ParseInt(hd.tokens[4]).val
                   /\ bps' = BytesPerSample(maxval')
                   /\ total_bytes' = width' * height' * 3 * bps'
                   /\ remaining' = total_bytes'
                   /\ buf' = <<>>
                   /\ pc' = "p6read"
                   /\ UNCHANGED <<handle, result>>
    /\ UNCHANGED <<file, magic, to_read, samples>>

\* A loop that counts the bytes asked for instead of the bytes read.
NextRemainingAsked(rem, asked, got) == rem - asked

\* remaining -= len(chunk)
NextRemaining(rem, asked, got) == rem - got

\* P6: one iteration of the block-read loop; an empty chunk breaks it.
P6ReadBlock ==
    /\ pc = "p6read"
    /\ remaining > 0
    /\ to_read' = IF block_size < remaining THEN block_size ELSE remaining
    /\ \E k \in ReadCounts(to_read', Len(file) - pos) :
          IF k = 0
          THEN pc' = "p6check" /\ UNCHANGED <<pos, buf, remaining>>
          ELSE /\ buf' = buf \o SubSeq(file, pos + 1, pos + k)
               /\ pos' = pos + k
               /\ remaining' = NextRemaining(remaining, to_read', k)
               /\ UNCHANGED pc
    /\ UNCHANGED <<file, handle, magic, tokens, width, height, maxval, bps,
                   total_bytes, samples, result>>

\* P6: the loop ends when nothing remains to be read.
P6LoopExit ==
    /\ pc = "p6read"
    /\ ~(remaining > 0)
    /\ pc' = "p6check"
    /\ UNCHANGED <<file, handle, pos, magic, tokens, width, height, maxval, bps,
                   total_bytes, remaining, to_read, buf, samples, result>>

\* P6: the check of the number of bytes, the rescaling and the image.
P6Finish ==
    /\ pc = "p6check"
    /\ samples' = IF Len(buf) = total_bytes THEN P6Samples(buf, bps) ELSE samples
    /\ \E r \in P6ConvertOutcomes(width, height, maxval, buf) : Exit(r)
    /\ UNCHANGED <<file, pos, magic, tokens, width, height, maxval, bps,
                   total_bytes, remaining, to_read, buf>>

Next ==
    \/ Open
    \/ ReadMagic
    \/ P3Read
    \/ P3Header
    \/ P3Convert
    \/ P6Header
    \/ P6ReadBlock
    \/ P6LoopExit
    \/ P6Finish

Spec == Init /\ [][Next]_vars

(***************************************************************************)
(* The claims.                                                             *)
(***************************************************************************)

Done == pc = "done"

\* In the P6 branch, once the header is accepted (bps is set): the position
\* at which the pixel bytes began, and the bytes the file holds from there.
DataStart == pos - Len(buf)

PixelBytesInFile == Len(file) - DataStart

\* The header as the file declares it, when its three numbers are integers.
Declared ==
    IF magic = MagicP3 /\ Len(tokens) >= 3 THEN P3ParseHeader(tokens)
    ELSE IF magic = MagicP6 /\ Len(tokens) >= 4
         THEN [ok |-> ParseInt(tokens[2]).ok /\ ParseInt(tokens[3]).ok /\ ParseInt(tokens[4]).ok,
               width |-> ParseInt(tokens[2]).val, height |-> ParseInt(tokens[3]).val,
               maxval |-> ParseInt(tokens[4]).val]
    ELSE [ok |-> FALSE, width |-> 0, height |-> 0, maxval |-> 0]

ValidHeader ==
    Declared.ok /\ Declared.width > 0 /\ Declared.height > 0
    /\ Declared.maxval >= 1 /\ Declared.maxval <= 65535

\* The number of samples the file holds after its header is the declared one.
ExactSampleCount ==
    IF magic = MagicP3 THEN Len(tokens) - 3 = Declared.width * Declared.height * 3
    ELSE PixelBytesInFile = Declared.width * Declared.height * 3 * BytesPerSample(Declared.maxval)

\* C1: a file with a valid header is decoded only if it holds exactly
\* width*height*3 samples, to a buffer of exactly width*height*3 bytes; with
\* fewer or more samples (more tokens in P3, trailing bytes in P6) it fails
\* with the sample-count PPMFormatError.
C1_ExactSampleCount ==
    (Done /\ ValidHeader) =>
        /\ result.kind = "image" =>
              ExactSampleCount /\ Len(result.data) = Declared.width * Declared.height * 3
        /\ ~ExactSampleCount =>
              result.kind = "PPMFormatError" /\ result.err = "SampleCountMismatch"

\* C2: a P3 or P6 file whose header declares width <= 0, height <= 0 or a
\* maxval outside 1..65535 fails with the PPMFormatError for the dimensions
\* or the maxval; it is never decoded and raises nothing else.
C2_InvalidHeaderRejected ==
    (Done /\ Declared.ok /\ ~ValidHeader) =>
        /\ result.kind = "PPMFormatError"
        /\ result.err \in {"InvalidDimensions", "MaxvalOutOfRange"}

\* C3: read_ppm ends by returning an image or by raising PPMFormatError,
\* never another exception (ValueError, ZeroDivisionError).
C3_SingleTaggedError ==
    Done => result.kind \in {"image", "PPMFormatError"}

\* C4: however the four header tokens are laid out over the lines, the
\* decoder fails for an empty input, a wrong magic or an incomplete header
\* only when the stream is empty, fewer than 4 tokens exist after comment
\* stripping, or the first token is neither P3 nor P6.
C4_HeaderLayoutIndependent ==
    (Done /\ result.kind = "PPMFormatError"
          /\ result.err \in {"EmptyInput", "InvalidMagic", "HeaderIncomplete"}) =>
        \/ file = <<>>
        \/ ~read_header_tokens(file).ok
        \/ read_header_tokens(file).tokens[1] \notin {MagicP3, MagicP6}

\* The header lines of a file (for P3, every line): the positions of their
\* line feeds.
CommentableLines(f) ==
    {p \in 1..Len(f) : f[p] = 10 /\ (Strip(SubSeq(f, 1, ReadLineEnd(f, 0))) = MagicP6
                                       => p <= P6DataStart(f))}

\* The file with '#' and some text appended to one of those lines.
CommentVariants(f) ==
    {SubSeq(f, 1, p - 1) \o c \o SubSeq(f, p, Len(f)) :
        p \in CommentableLines(f), c \in {<<35, 99>>, <<32, 35, 32, 57, 32, 120>>}}

\* C5: a comment appended to a header line of a P3 or P6 file, or to a data
\* line of a P3 file, does not change the outcome of the decoding.
C5_CommentStripping ==
    (Done /\ Strip(SubSeq(file, 1, ReadLineEnd(file, 0))) \in {MagicP3, MagicP6}) =>
        \A g \in CommentVariants(file) : result \in read_ppm(g)

\* 2 * |a * m - n| <= m: a is a nearest integer to n / m.
Nearest(a, n, m) == 2 * Abs(a * m - n) <= m

\* C6: in the P6 branch a sample takes 1 byte for maxval 1..255 and 2 bytes,
\* big-endian, for maxval 256..65535; width*height*3*bps bytes are required,
\* and a file of maxval >= 256 that holds fewer (such as width*height*3 bytes
\* only) fails with PPMFormatError instead of being read with 1-byte samples.
C6_DepthSwitch ==
    (bps # 0) =>
        /\ maxval \in 1..65535
        /\ bps = IF maxval <= 255 THEN 1 ELSE 2
        /\ total_bytes = width * height * 3 * bps
        /\ (Done /\ result.kind = "image") =>
              /\ Len(buf) = width * height * 3 * bps
              /\ Len(result.data) = width * height * 3
              /\ bps = 2 =>
                    \A i \in 1..Len(result.data) :
                        Nearest(result.data[i],
                                255 * Clamp(256 * buf[2 * i - 1] + buf[2 * i], maxval), maxval)
        /\ (Done /\ bps = 2 /\ PixelBytesInFile < width * height * 3 * 2) =>
              result.kind = "PPMFormatError" /\ result.err = "SampleCountMismatch"

\* A P6 file of maxval 256 with 1 byte to a sample has been rejected.
C6_Witness ==
    /\ Done /\ bps # 0 /\ maxval = 256
    /\ PixelBytesInFile = width * height * 3
    /\ result.err = "SampleCountMismatch"

\* round(n / m) in exact arithmetic, a tie to the even integer.
RoundHalfEven(n, m) ==
    LET q == n \div m
        r == n % m
    IN  IF 2 * r < m THEN q
        ELSE IF 2 * r > m THEN q + 1
        ELSE q + (q % 2)

\* C7: on the three sample paths a sample v in 0..maxval becomes
\* round(v * 255 / maxval), in exact arithmetic with ties to even: the same
\* byte whichever path decoded it.
C7_RescaleRule ==
    (Done /\ result.kind = "image" /\ maxval \in 1..65535
          /\ \A i \in 1..Len(samples) : samples[i] \in 0..maxval) =>
        /\ Len(result.data) = Len(samples)
        /\ \A i \in 1..Len(samples) :
              result.data[i] = RoundHalfEven(samples[i] * 255, maxval)

\* C8: the stream opened by read_ppm is closed in every terminal state,
\* whether an image was returned or an exception raised.
C8_StreamClosedOnExit ==
    Done => (handle = "closed" /\ result.kind # "none")

\* read_ppm was left by an exception of the conversion.
C8_Witness ==
    Done /\ handle = "closed" /\ result.kind = "ValueError" /\ result.err = "bytes"

IsNewline(b) == b = 10

\* The tokens of a text read line by line, comments removed.
LineTokens(s) ==
    LET lines == Pieces(s, IsNewline)
    IN  Flatten([k \in 1..Len(lines) |-> Split(StripComment(lines[k]))])

\* C9: in the P6 branch the pixel bytes are read from the position just
\* after the end of the line that holds the 4th header token: that line is
\* consumed whole, whatever follows maxval on it, no earlier line end has 4
\* tokens before it, and the bytes read are the file's bytes from there on.
C9_PixelDataStart ==
    (bps # 0) =>
        /\ DataStart >= 1
        /\ DataStart = Len(file) \/ file[DataStart] = 10
        /\ Len(LineTokens(SubSeq(file, 1, DataStart))) >= 4
        /\ \A q \in 1..(DataStart - 1) :
              file[q] = 10 => Len(LineTokens(SubSeq(file, 1, q))) < 4
        /\ buf = SubSeq(file, DataStart + 1, DataStart + Len(buf))
        /\ (Done /\ result.kind = "image" /\ maxval = 255) =>
              result.data = SubSeq(file, DataStart + 1, DataStart + width * height * 3)

\* A P6 image was decoded whose maxval line holds more than the maxval.
C9_Witness ==
    /\ Done /\ bps # 0 /\ result.kind = "image"
    /\ Len(LineTokens(SubSeq(file, 1, DataStart))) > 4

C10_LoopInvariant ==
    /\ pc \in {"p6read", "p6check"} =>
          /\ remaining >= 0
          /\ Len(buf) + remaining = total_bytes
    /\ pc = "p6check" =>
          /\ Len(buf) = total_bytes <=> PixelBytesInFile >= total_bytes
          /\ Len(buf) # total_bytes => pos = Len(file)
    /\ (Done /\ bps # 0 /\ PixelBytesInFile < total_bytes) =>
          result = Raise("PPMFormatError", "SampleCountMismatch",
                         <<PixelBytesInFile, total_bytes>>)

\* An iteration asks for at most min(block_size, remaining) bytes, and either
\* leaves the loop or leaves less to read.
C10_LoopStep ==
    (pc = "p6read" /\ remaining > 0) =>
        /\ to_read' <= block_size /\ to_read' <= remaining
        /\ Len(buf') - Len(buf) <= to_read'
        /\ pc' = "p6read" => remaining' < remaining

\* C10: under short reads the P6 block-read loop never asks for more than
\* min(65536, remaining) bytes, keeps len(buf) + remaining = total_bytes and
\* remaining >= 0, ends with len(buf) = total_bytes exactly when the stream
\* held that many bytes after the header, otherwise stops at the end of the
\* stream and read_ppm fails reporting both counts.  It terminates: every
\* iteration that stays in the loop decreases remaining, which is never
\* negative.
C10_BlockReadLoop ==
    /\ []C10_LoopInvariant
    /\ [][C10_LoopStep]_vars

\* A read of block_size bytes, asked for while more remained, came back short.
C10_Witness ==
    /\ pc = "p6read" /\ to_read = block_size
    /\ Len(buf) > 0 /\ Len(buf) < block_size /\ remaining > 0

=============================================================================
